---- MODULE Spec2Model ----
(***************************************************************************)
(* A model of textsearch/python/textsearch/datatypes.py.                   *)
(*                                                                         *)
(* Two layers are modelled, each with its own specification:               *)
(*   SpecSource : TextSource.from_str / TextSource.text and                *)
(*                Transcript.from_dict / Transcript.text                   *)
(*   SpecBatch  : texts_to_sourced_texts, append_texts and element writes  *)
(*                to the numpy buffers that SourcedText objects hold       *)
(*                                                                         *)
(* A Python str is a sequence of code points (naturals), a numpy array is  *)
(* a sequence of numbers together with its dtype, Optional[x] is the       *)
(* sequence <<>> (None) or <<x>>, and a raised exception is a record of    *)
(* kind "raised".                                                          *)
(***************************************************************************)
EXTENDS Integers, Sequences, FiniteSets, TLC

VARIABLES
    input,      \* the arguments of the constructor call under study
    obj,        \* what the constructor returned (or raised)
    txt,        \* what the .text property returned (or raised)
    bufs,       \* the heap of numpy data buffers, indexed by buffer id
    sources,    \* the TextSource objects of the program, indexed by object id
    batches,    \* the SourcedText objects created so far, in creation order
    last,       \* the last call made on the batch layer and how it ended
    nwrites     \* the number of element writes made so far

srcvars == <<input, obj, txt>>
batchvars == <<bufs, sources, batches, last, nwrites>>
vars == <<input, obj, txt, bufs, sources, batches, last, nwrites>>

----------------------------------------------------------------------------
(* Bounds of the model *)

\* longest string handed to TextSource.from_str
MaxLen == 3
\* largest number of tokens (and of begin times) in d handed to from_dict
MaxTokens == 3
\* number of TextSource objects the batch layer works on
NumSources == 2
\* longest list handed to texts_to_sourced_texts or append_texts
MaxList == 2
\* largest number of SourcedText objects created
MaxBatches == 4
\* largest number of element writes
MaxWrites == 1

----------------------------------------------------------------------------
(* Input domains *)

\* Code points on both sides of every UTF-8 width boundary, plus one
\* surrogate (0xD800), which a Python str may hold but UTF-8 cannot encode.
Chars == {65, 127, 128, 2047, 2048, 55296, 65535, 65536, 1114111}

\* Tokens of a transcript: "", "a", and the two-character token "éb"
\* (three UTF-8 bytes, two code points).
Tokens == {<<>>, <<97>>, <<233, 98>>}

\* Begin times.  They are Python floats; the model takes whole numbers,
\* including the pair 2^24, 2^24 + 1 that float32 cannot tell apart.
Times == {1, 2, 16777216, 16777217}

SeqsUpTo(S, n) == UNION {[1..k -> S] : k \in 0..n}

Strings == SeqsUpTo(Chars, MaxLen)

\* Texts of the sources of the batch layer: "h" and "hi".
SourceTexts == {<<104>>, <<104, 105>>}

\* The value an element write stores ("x").
WriteValues == {120}

----------------------------------------------------------------------------
(* Values *)

None == <<>>
Some(x) == <<x>>

Raised(e) == [kind |-> "raised", exc |-> e]
NoObject == [kind |-> "none"]

RECURSIVE Repeat(_, _)
\* [x] * n
Repeat(x, n) == IF n <= 0 THEN <<>> ELSE <<x>> \o Repeat(x, n - 1)

RECURSIVE Concat(_)
\* "".join(ss) / b"".join(ss) / chain(*ss)
Concat(ss) == IF ss = <<>> THEN <<>> ELSE Head(ss) \o Concat(Tail(ss))

Last(q) == q[Len(q)]

----------------------------------------------------------------------------
(* Library conversions used by the code *)

IsSurrogate(c) == c >= 55296 /\ c <= 57343

\* str.encode("utf-8") of one character; <<>> for a surrogate, which the
\* codec refuses (UnicodeEncodeError).
Utf8EncodeChar(c) ==
    IF c < 128 THEN <<c>>
    ELSE IF c < 2048 THEN <<192 + (c \div 64), 128 + (c % 64)>>
    ELSE IF IsSurrogate(c) THEN <<>>
    ELSE IF c < 65536
        THEN <<224 + (c \div 4096), 128 + ((c \div 64) % 64), 128 + (c % 64)>>
    ELSE <<240 + (c \div 262144), 128 + ((c \div 4096) % 64),
           128 + ((c \div 64) % 64), 128 + (c % 64)>>

Encodable(s) == \A i \in 1..Len(s) : ~IsSurrogate(s[i])

RECURSIVE Utf8Encode(_)
\* s.encode("utf-8"), for an encodable s
Utf8Encode(s) ==
    IF s = <<>> THEN <<>> ELSE Utf8EncodeChar(Head(s)) \o Utf8Encode(Tail(s))

IsCont(b, i) == i <= Len(b) /\ b[i] >= 128 /\ b[i] < 192

RECURSIVE Utf8DecodeFrom(_, _, _)
\* bytes.decode("utf-8") from byte i on, acc the characters decoded so far:
\* the strict decoder (no overlong forms, no surrogates, nothing above
\* U+10FFFF, no truncated sequence).
Utf8DecodeFrom(b, i, acc) ==
    IF i > Len(b) THEN [kind |-> "str", s |-> acc]
    ELSE LET x == b[i] IN
        IF x < 128 THEN Utf8DecodeFrom(b, i + 1, Append(acc, x))
        ELSE IF x >= 194 /\ x < 224 /\ IsCont(b, i + 1)
            THEN Utf8DecodeFrom(b, i + 2,
                     Append(acc, (x - 192) * 64 + (b[i + 1] - 128)))
        ELSE IF x >= 224 /\ x < 240 /\ IsCont(b, i + 1) /\ IsCont(b, i + 2)
            THEN LET c == (x - 224) * 4096 + (b[i + 1] - 128) * 64
                          + (b[i + 2] - 128)
                 IN  IF c >= 2048 /\ ~IsSurrogate(c)
                     THEN Utf8DecodeFrom(b, i + 3, Append(acc, c))
                     ELSE Raised("UnicodeDecodeError")
        ELSE IF x >= 240 /\ x < 245 /\ IsCont(b, i + 1) /\ IsCont(b, i + 2)
                /\ IsCont(b, i + 3)
            THEN LET c == (x - 240) * 262144 + (b[i + 1] - 128) * 4096
                          + (b[i + 2] - 128) * 64 + (b[i + 3] - 128)
                 IN  IF c >= 65536 /\ c <= 1114111
                     THEN Utf8DecodeFrom(b, i + 4, Append(acc, c))
                     ELSE Raised("UnicodeDecodeError")
        ELSE Raised("UnicodeDecodeError")

Utf8Decode(b) == Utf8DecodeFrom(b, 1, <<>>)

\* The four bytes of one non-negative int32 in the platform's byte order.
Int32Bytes(v, order) ==
    LET le == <<v % 256, (v \div 256) % 256, (v \div 65536) % 256,
                (v \div 16777216) % 256>>
    IN  IF order = "little" THEN le ELSE <<le[4], le[3], le[2], le[1]>>

RECURSIVE ToBytes(_, _, _)
\* ndarray.tobytes(): the raw memory of the array
ToBytes(a, dtype, order) ==
    IF a = <<>> THEN <<>>
    ELSE (IF dtype = "uint8" THEN <<Head(a)>> ELSE Int32Bytes(Head(a), order))
         \o ToBytes(Tail(a), dtype, order)

\* np.asarray(x, dtype=np.float32) of one whole number below 2^25: exact
\* below 2^24, round-to-nearest-even on the grid of even numbers above.
ToFloat32(x) ==
    IF x < 16777216 \/ x % 2 = 0 THEN x
    ELSE IF ((x - 1) \div 2) % 2 = 0 THEN x - 1 ELSE x + 1

\* A number stored in a uint32 array: x mod 2^32, written on 16-bit halves
\* (the modulus itself is beyond the model checker's integers).
ToUint32(x) == ((x \div 65536) % 65536) * 65536 + (x % 65536)

AsFloat32(q) == [i \in 1..Len(q) |-> ToFloat32(q[i])]

----------------------------------------------------------------------------
(* TextSource *)

SymbolLength_Mut(i) ==
    IF i <= 128 THEN 1
    ELSE IF i < 2048 THEN 2
    ELSE IF i < 65536 THEN 3
    ELSE 4

\* the if/elif chain of _find_byte_offsets_for_utf8_symbols
SymbolLength(i) ==
    IF i < 128 THEN 1
    ELSE IF i < 2048 THEN 2
    ELSE IF i < 65536 THEN 3
    ELSE 4

RECURSIVE ByteOffsetsLoop(_, _, _, _)
\* the for loop: k the next index, byte_index and byte_offsets its locals
ByteOffsetsLoop(binary_text, k, byte_index, byte_offsets) ==
    IF k > Len(binary_text) THEN byte_offsets
    ELSE ByteOffsetsLoop(binary_text, k + 1,
                         byte_index + SymbolLength(binary_text[k]),
                         Append(byte_offsets, byte_index))

\* _find_byte_offsets_for_utf8_symbols: the offsets as a uint32 array
FindByteOffsets(binary_text) ==
    LET byte_offsets == ByteOffsetsLoop(binary_text, 1, 0, <<>>)
    IN  [i \in 1..Len(byte_offsets) |-> ToUint32(byte_offsets[i])]

TextSourceObj(data, dtype, pos) ==
    [kind |-> "TextSource", binary_text |-> data, dtype |-> dtype, pos |-> pos]

\* TextSource.from_str
from_str(s, use_utf8) ==
    IF use_utf8
    THEN IF Encodable(s)
         THEN TextSourceObj(Utf8Encode(s), "uint8", None)
         ELSE Raised("UnicodeEncodeError")
    ELSE TextSourceObj(s, "int32", Some(FindByteOffsets(s)))

\* chr(i) for every i of an int32 array of code points, joined
JoinChr(a) ==
    IF \A i \in 1..Len(a) : a[i] >= 0 /\ a[i] <= 1114111
    THEN [kind |-> "str", s |-> a]
    ELSE Raised("ValueError")

\* TextSource.text
TextSource_text(o, order) ==
    IF o.dtype = "uint8"
    THEN Utf8Decode(ToBytes(o.binary_text, "uint8", order))
    ELSE JoinChr(o.binary_text)

----------------------------------------------------------------------------
(* Transcript *)

TranscriptObj(data, dtype, times) ==
    [kind |-> "Transcript", binary_text |-> data, dtype |-> dtype,
     times |-> times]

TimeCheckFails_Mut(time_list, begin_time) ==
    time_list # <<>> /\ ~(Last(time_list) <= begin_time)

\* "if time_list: assert time_list[-1] < begin_time": TRUE when the
\* assertion fails
TimeCheckFails(time_list, begin_time) ==
    time_list # <<>> /\ ~(Last(time_list) < begin_time)

CodepointTimeCount_Mut(text) == Len(text)

\* the number of times one token adds in code point mode: len(text) * 4
CodepointTimeCount(text) == Len(text) * 4

RECURSIVE FromDictUtf8Loop(_, _, _, _, _)
\* the loop of the use_utf8 branch: k the next pair of the zip, byte_list
\* (joined) and time_list its locals
FromDictUtf8Loop(text, begin_times, k, byte_list, time_list) ==
    IF k > Len(text) \/ k > Len(begin_times)
    THEN TranscriptObj(byte_list, "uint8", AsFloat32(time_list))
    ELSE IF ~Encodable(text[k]) THEN Raised("UnicodeEncodeError")
    ELSE LET b == Utf8Encode(text[k]) IN
        IF TimeCheckFails(time_list, begin_times[k])
        THEN Raised("AssertionError")
        ELSE FromDictUtf8Loop(text, begin_times, k + 1, byte_list \o b,
                 time_list \o Repeat(begin_times[k], Len(b)))

RECURSIVE FromDictCodepointLoop(_, _, _, _, _)
\* the loop of the code point branch
FromDictCodepointLoop(text, begin_times, k, codepoint_list, time_list) ==
    IF k > Len(text) \/ k > Len(begin_times)
    THEN TranscriptObj(Concat(codepoint_list), "int32", AsFloat32(time_list))
    ELSE IF TimeCheckFails(time_list, begin_times[k])
        THEN Raised("AssertionError")
    ELSE FromDictCodepointLoop(text, begin_times, k + 1,
             Append(codepoint_list, text[k]),
             time_list \o Repeat(begin_times[k], CodepointTimeCount(text[k])))

\* Transcript.from_dict, d = {"text": text, "begin_times": begin_times}
from_dict(text, begin_times, use_utf8) ==
    IF Len(text) # Len(begin_times) THEN Raised("AssertionError")
    ELSE IF use_utf8 THEN FromDictUtf8Loop(text, begin_times, 1, <<>>, <<>>)
    ELSE FromDictCodepointLoop(text, begin_times, 1, <<>>, <<>>)

\* Transcript.text
Transcript_text(o, order) == Utf8Decode(ToBytes(o.binary_text, o.dtype, order))

----------------------------------------------------------------------------
(* Specification of the source layer *)

StrInput(s, use_utf8) ==
    [kind |-> "str", s |-> s, use_utf8 |-> use_utf8]

DictInput(text, begin_times, use_utf8) ==
    [kind |-> "dict", text |-> text, begin_times |-> begin_times,
     use_utf8 |-> use_utf8]

NoCall == [op |-> "none"]

InitSource ==
    /\ bufs = <<>>
    /\ sources = <<>>
    /\ batches = <<>>
    /\ last = NoCall
    /\ nwrites = 0
    /\ \/ input \in {StrInput(s, u) : s \in Strings, u \in BOOLEAN}
       \/ input \in {DictInput(t, b, u) : t \in SeqsUpTo(Tokens, MaxTokens),
                                          b \in SeqsUpTo(Times, MaxTokens),
                                          u \in BOOLEAN}
    /\ obj = NoObject
    /\ txt = NoObject

\* TextSource.from_str(name, s, use_utf8)
FromStr ==
    /\ input.kind = "str"
    /\ obj = NoObject
    /\ obj' = from_str(input.s, input.use_utf8)
    /\ UNCHANGED <<input, txt, batchvars>>

\* Transcript.from_dict(name, d, use_utf8)
FromDict ==
    /\ input.kind = "dict"
    /\ obj = NoObject
    /\ obj' = from_dict(input.text, input.begin_times, input.use_utf8)
    /\ UNCHANGED <<input, txt, batchvars>>

\* obj.text on a TextSource
TextSourceText ==
    /\ obj.kind = "TextSource"
    /\ txt = NoObject
    /\ \E order \in {"little", "big"} : txt' = TextSource_text(obj, order)
    /\ UNCHANGED <<input, obj, batchvars>>

\* obj.text on a Transcript
TranscriptText ==
    /\ obj.kind = "Transcript"
    /\ txt = NoObject
    /\ \E order \in {"little", "big"} : txt' = Transcript_text(obj, order)
    /\ UNCHANGED <<input, obj, batchvars>>

NextSource ==
    \/ FromStr
    \/ FromDict
    \/ TextSourceText
    \/ TranscriptText

SpecSource == InitSource /\ [][NextSource]_vars

----------------------------------------------------------------------------
(* SourcedText *)

\* A numpy data buffer.  Two arrays made from the same buffer id are the
\* same memory.
Buffer(data, dtype, writeable) ==
    [data |-> data, dtype |-> dtype, writeable |-> writeable]

\* The buffer behind the binary_text of a TextSource that from_str returned:
\* np.frombuffer over a bytes object is read-only, np.fromiter allocates a
\* writeable array.
BufferOfTextSource(o) == Buffer(o.binary_text, o.dtype, o.dtype # "uint8")

IntDoc(n) == [tag |-> "int", v |-> n]
ArrayDoc(a) == [tag |-> "ndarray", v |-> a]

SourcedText(binary_text, pos, doc, srcs, doc_splits) ==
    [binary_text |-> binary_text, pos |-> pos, doc |-> doc,
     sources |-> srcs, doc_splits |-> doc_splits]

\* np.arange(n, dtype=np.uint32)
Arange(n) == [i \in 1..n |-> ToUint32(i - 1)]

\* texts_to_sourced_texts: srcs the object ids of the TextSources of the
\* list, heap the buffers, objs the TextSource objects.  binary_text is the
\* source's own array, not a copy of it.
texts_to_sourced_texts(srcs, heap, objs) ==
    [k \in 1..Len(srcs) |->
        SourcedText(objs[srcs[k]].binary_text,
                    Arange(Len(heap[objs[srcs[k]].binary_text].data)),
                    IntDoc(k - 1),
                    <<srcs[k]>>,
                    None)]

\* the items one text adds to doc:
\* t.doc if isinstance(t.doc, np.ndarray) else [t.doc]
DocItems(t) == IF t.doc.tag = "ndarray" THEN t.doc.v ELSE <<t.doc.v>>

RECURSIVE CumSum(_, _)
\* np.cumsum(q), acc the sum so far
CumSum(q, acc) ==
    IF q = <<>> THEN <<>>
    ELSE <<acc + Head(q)>> \o CumSum(Tail(q), acc + Head(q))

\* the dtype np.concatenate gives arrays of these buffers
ConcatDtype(bs) ==
    IF \A k \in 1..Len(bs) : bs[k].dtype = "uint8" THEN "uint8" ELSE "int32"

\* texts[:-1]
AllButLast(q) == SubSeq(q, 1, Len(q) - 1)

\* append_texts on a non-empty list: the SourcedText returned, whose
\* binary_text is the fresh buffer `fresh`, and the content of that buffer
append_texts(texts, heap, fresh) ==
    LET bs == [k \in 1..Len(texts) |-> heap[texts[k].binary_text]] IN
    [text |->
        SourcedText(
            fresh,
            Concat([k \in 1..Len(texts) |-> texts[k].pos]),
            ArrayDoc(Concat([k \in 1..Len(texts) |-> DocItems(texts[k])])),
            Concat([k \in 1..Len(texts) |-> texts[k].sources]),
            Some(CumSum(<<0>> \o [k \in 1..Len(AllButLast(texts)) |->
                                     Len(bs[k].data)], 0))),
     buffer |->
        Buffer(Concat([k \in 1..Len(texts) |-> bs[k].data]),
               ConcatDtype(bs), TRUE)]

----------------------------------------------------------------------------
(* Specification of the batch layer *)

InitBatch ==
    /\ input = NoObject
    /\ obj = NoObject
    /\ txt = NoObject
    /\ \E ss \in [1..NumSources -> SourceTexts],
          us \in [1..NumSources -> BOOLEAN] :
          /\ bufs = [i \in 1..NumSources |->
                        BufferOfTextSource(from_str(ss[i], us[i]))]
          /\ sources = [i \in 1..NumSources |->
                           [name |-> i, binary_text |-> i,
                            pos |-> from_str(ss[i], us[i]).pos]]
    /\ batches = <<>>
    /\ last = NoCall
    /\ nwrites = 0

\* texts_to_sourced_texts(srcs); the SourcedTexts returned are kept
TextsToSourcedTexts(srcs) ==
    /\ Len(batches) + Len(srcs) <= MaxBatches
    /\ batches' = batches \o texts_to_sourced_texts(srcs, bufs, sources)
    /\ last' = [op |-> "texts_to_sourced_texts", args |-> srcs,
                raised |-> "none"]
    /\ UNCHANGED <<bufs, sources, nwrites, srcvars>>

\* append_texts(texts), texts the SourcedTexts at these places of batches;
\* np.concatenate refuses an empty list
AppendTexts(ix) ==
    \/ /\ ix = <<>>
       /\ last' = [op |-> "append_texts", args |-> ix,
                   raised |-> "ValueError"]
       /\ UNCHANGED <<bufs, batches, sources, nwrites, srcvars>>
    \/ /\ ix # <<>>
       /\ Len(batches) < MaxBatches
       /\ LET r == append_texts([k \in 1..Len(ix) |-> batches[ix[k]]],
                                bufs, Len(bufs) + 1)
          IN  /\ bufs' = Append(bufs, r.buffer)
              /\ batches' = Append(batches, r.text)
       /\ last' = [op |-> "append_texts", args |-> ix, raised |-> "none"]
       /\ UNCHANGED <<sources, nwrites, srcvars>>

\* batches[b].binary_text[i - 1] = v, by the user of a SourcedText; numpy
\* refuses to write to a read-only array
WriteElement(b, i, v) ==
    /\ nwrites < MaxWrites
    /\ nwrites' = nwrites + 1
    /\ \/ /\ bufs[batches[b].binary_text].writeable
          /\ bufs' = [bufs EXCEPT ![batches[b].binary_text].data[i] = v]
          /\ last' = [op |-> "write", args |-> <<b, i, v>>,
                      raised |-> "none"]
       \/ /\ ~bufs[batches[b].binary_text].writeable
          /\ bufs' = bufs
          /\ last' = [op |-> "write", args |-> <<b, i, v>>,
                      raised |-> "ValueError"]
    /\ UNCHANGED <<batches, sources, srcvars>>

NextBatch ==
    \/ \E srcs \in SeqsUpTo(1..NumSources, MaxList) : TextsToSourcedTexts(srcs)
    \/ \E ix \in SeqsUpTo(1..Len(batches), MaxList) : AppendTexts(ix)
    \/ \E b \in 1..Len(batches) :
           \E i \in 1..Len(bufs[batches[b].binary_text].data) :
               \E v \in WriteValues : WriteElement(b, i, v)

SpecBatch == InitBatch /\ [][NextBatch]_vars

----------------------------------------------------------------------------
(* Properties of the source layer, checked under SpecSource *)

StrResult(s) == [kind |-> "str", s |-> s]

IsNonDecreasing(q) == \A i \in 1..(Len(q) - 1) : q[i] <= q[i + 1]

\* the number of array elements one token is encoded to
ElementCount(tok, dtype) ==
    IF dtype = "uint8" THEN Len(Utf8Encode(tok)) ELSE Len(tok)

RECURSIVE ElementsUpTo(_, _, _)
\* the number of elements tokens 1..k are encoded to
ElementsUpTo(text, dtype, k) ==
    IF k = 0 THEN 0
    ELSE ElementsUpTo(text, dtype, k - 1) + ElementCount(text[k], dtype)

\* the token that element e (counted from 1) was encoded from
TokenOfElement(text, dtype, e) ==
    CHOOSE k \in 1..Len(text) :
        /\ ElementsUpTo(text, dtype, k - 1) < e
        /\ e <= ElementsUpTo(text, dtype, k)

\* times holds `per` entries for each element, each entry the float32 begin
\* time of the element's token
TimesFollowTokens(o, text, begin_times, per) ==
    /\ Len(o.times) = per * Len(o.binary_text)
    /\ \A j \in 1..Len(o.times) :
           o.times[j] = ToFloat32(begin_times[
               TokenOfElement(text, o.dtype, ((j - 1) \div per) + 1)])
    /\ IsNonDecreasing(o.times)

\* C6 as stated: after a successful Transcript.from_dict in either mode,
\* times has one entry per element of binary_text, entry j being the begin
\* time of the token element j was encoded from, and times is
\* non-decreasing.
C6_OneTimePerElement ==
    (input.kind = "dict" /\ obj.kind = "Transcript") =>
        TimesFollowTokens(obj, input.text, input.begin_times, 1)

\* C6 as amended: after a successful Transcript.from_dict, times has one
\* entry per element in utf-8 mode and four entries per element (one per
\* byte of the int32 array) in code point mode; entry j is the begin time of
\* the token that element j (utf-8) or element j div 4 (code points) was
\* encoded from, and times is non-decreasing.
C6_OneTimePerByte ==
    (input.kind = "dict" /\ obj.kind = "Transcript") =>
        TimesFollowTokens(obj, input.text, input.begin_times,
                          IF obj.dtype = "uint8" THEN 1 ELSE 4)

\* A code point transcript of two tokens, the first of two characters, has
\* been built.
C6_Witness ==
    /\ input.kind = "dict"
    /\ input.text = <<<<233, 98>>, <<97>>>>
    /\ obj.kind = "Transcript"
    /\ obj.dtype = "int32"
    /\ Len(obj.times) = 12

\* C7 as stated: Transcript.from_dict on tokens and begin times of equal
\* length raises whenever some begin time is not greater than the one
\* before it, in both modes.
C7_NonIncreasingTimesFail ==
    (/\ input.kind = "dict"
     /\ obj # NoObject
     /\ Len(input.text) = Len(input.begin_times)
     /\ \E k \in 1..(Len(input.begin_times) - 1) :
            input.begin_times[k + 1] <= input.begin_times[k])
    => obj.kind = "raised"

\* the UTF-8 byte width of code point c, by the encoder
Utf8Width(c) == Len(Utf8EncodeChar(c))

\* C8: for a string of Unicode scalar values, TextSource.from_str in code
\* point mode gives a pos array as long as binary_text that starts at 0,
\* grows from each code point to the next by that code point's UTF-8 width
\* (a step in 1..4), and whose last entry plus the last code point's width
\* is the length of the string's UTF-8 encoding.
C8_OffsetsAreUtf8Positions ==
    (/\ input.kind = "str"
     /\ ~input.use_utf8
     /\ Encodable(input.s)
     /\ obj # NoObject)
    => /\ obj.kind = "TextSource"
       /\ obj.pos # None
       /\ LET data == obj.binary_text
              offset == obj.pos[1]
              n == Len(obj.binary_text)
          IN  /\ data = input.s
              /\ Len(offset) = n
              /\ n > 0 => offset[1] = 0
              /\ \A i \in 1..(n - 1) :
                     /\ offset[i + 1] - offset[i] = Utf8Width(data[i])
                     /\ offset[i + 1] - offset[i] \in 1..4
              /\ n > 0 =>
                     offset[n] + Utf8Width(data[n]) = Len(Utf8Encode(input.s))

\* A code point source of a two-, a three- and a four-byte character has
\* been built.
C8_Witness ==
    /\ input.kind = "str"
    /\ input.s = <<2047, 2048, 65536>>
    /\ obj.kind = "TextSource"
    /\ obj.pos = Some(<<0, 2, 5>>)

\* C9 as stated: .text returns the string a TextSource was built from, and
\* the concatenation of the tokens a Transcript was built from, in both
\* modes.
C9_TextIsLeftInverse ==
    /\ (input.kind = "str" /\ txt # NoObject) => txt = StrResult(input.s)
    /\ (input.kind = "dict" /\ txt # NoObject) =>
           txt = StrResult(Concat(input.text))

\* the pairs of d whose token is not empty
RECURSIVE KeptIndices(_, _)
KeptIndices(text, k) ==
    IF k > Len(text) THEN <<>>
    ELSE (IF text[k] = <<>> THEN <<>> ELSE <<k>>) \o KeptIndices(text, k + 1)

WithoutEmptyTokens(q, text) ==
    LET kept == KeptIndices(text, 1) IN [i \in 1..Len(kept) |-> q[kept[i]]]

\* from_dict on the input with every empty token and its begin time removed
FromDictWithoutEmptyTokens ==
    from_dict(WithoutEmptyTokens(input.text, input.text),
              WithoutEmptyTokens(input.begin_times, input.text),
              input.use_utf8)

\* C10 as stated: Transcript.from_dict succeeds or fails, and gives the same
\* binary_text and times, as on the input with every empty token and its
\* begin time removed.
C10_EmptyTokensAreSkipped ==
    (/\ input.kind = "dict"
     /\ obj # NoObject
     /\ Len(input.text) = Len(input.begin_times))
    => obj = FromDictWithoutEmptyTokens

\* token j is the last non-empty token before token k
LastNonEmptyBefore(text, j, k) ==
    /\ j < k
    /\ text[j] # <<>>
    /\ \A m \in (j + 1)..(k - 1) : text[m] = <<>>

\* C10 as amended: an empty token adds no element and no time and is no
\* comparison point for the tokens after it, but its own begin time is still
\* compared: from_dict succeeds exactly when every token, empty or not, that
\* follows a non-empty token has a begin time greater than that of the last
\* non-empty token before it.  When it succeeds, so does from_dict on the
\* input without its empty tokens, with the same binary_text and times.
C10_EmptyTokensAddNothing ==
    (/\ input.kind = "dict"
     /\ obj # NoObject
     /\ Len(input.text) = Len(input.begin_times))
    => /\ obj.kind = "Transcript" <=>
              \A k \in 1..Len(input.text) : \A j \in 1..(k - 1) :
                  LastNonEmptyBefore(input.text, j, k) =>
                      input.begin_times[j] < input.begin_times[k]
       /\ obj.kind = "Transcript" => obj = FromDictWithoutEmptyTokens

\* A transcript with an empty token between two non-empty ones has been
\* built.
C10_Witness ==
    /\ input.kind = "dict"
    /\ input.text = <<<<97>>, <<>>, <<233, 98>>>>
    /\ obj.kind = "Transcript"

----------------------------------------------------------------------------
(* Properties of the batch layer, checked under SpecBatch *)

\* len(t.binary_text)
DataLen(t) == Len(bufs[t.binary_text].data)

\* the document ids t.doc holds
DocValues(t) ==
    IF t.doc.tag = "int" THEN {t.doc.v}
    ELSE {t.doc.v[i] : i \in 1..Len(t.doc.v)}

\* t.doc gives element i (counted from 1) a document id
HasDocAt(t, i) == t.doc.tag = "int" \/ i <= Len(t.doc.v)

\* the document id of element i
DocAt(t, i) == IF t.doc.tag = "int" THEN t.doc.v ELSE t.doc.v[i]

IsSourceIndex(t, d) == d >= 0 /\ d < Len(t.sources)

\* the object id of the source that document id d of t designates
SourceAt(t, d) == t.sources[d + 1]

\* Resolve(t, i) is defined: element i has a document id that indexes
\* t.sources, and pos[i] lies inside that source
ResolveDefined(t, i) ==
    /\ i <= Len(t.pos)
    /\ HasDocAt(t, i)
    /\ IsSourceIndex(t, DocAt(t, i))
    /\ t.pos[i] < Len(bufs[sources[SourceAt(t, DocAt(t, i))].binary_text].data)

\* C1 as stated: in every SourcedText made by texts_to_sourced_texts and
\* append_texts, every document id in doc indexes the object's own sources
\* list and Resolve is defined for every element.
C1_ProvenanceIsDefined ==
    \A b \in 1..Len(batches) :
        /\ \A d \in DocValues(batches[b]) : IsSourceIndex(batches[b], d)
        /\ \A i \in 1..DataLen(batches[b]) : ResolveDefined(batches[b], i)

\* the last call was a successful append_texts; its result is the newest
\* SourcedText and its arguments are ArgTexts
Appended == last.op = "append_texts" /\ last.raised = "none"
Result == batches[Len(batches)]
ArgTexts == [k \in 1..Len(last.args) |-> batches[last.args[k]]]

\* what a text is to add to doc: a scalar once per element, an array as is
DocPerElement(t) ==
    IF t.doc.tag = "int" THEN Repeat(t.doc.v, DataLen(t)) ELSE t.doc.v

\* C2 as stated: the doc of append_texts' result is an array, the
\* concatenation of each argument's scalar doc repeated len(binary_text)
\* times or of its doc array, and as long as binary_text and pos.
C2_DocIsPerElement ==
    Appended =>
        /\ Result.doc.tag = "ndarray"
        /\ Result.doc.v =
               Concat([k \in 1..Len(ArgTexts) |-> DocPerElement(ArgTexts[k])])
        /\ Len(Result.doc.v) = DataLen(Result)
        /\ Len(Result.pos) = DataLen(Result)

RECURSIVE DataLenUpTo(_, _)
\* the number of elements of the first k texts
DataLenUpTo(texts, k) ==
    IF k = 0 THEN 0 ELSE DataLenUpTo(texts, k - 1) + DataLen(texts[k])

\* every element of t has a document id of its own that indexes t.sources
DocIsAligned(t) ==
    /\ t.doc.tag = "ndarray" => Len(t.doc.v) = DataLen(t)
    /\ \A i \in 1..DataLen(t) : IsSourceIndex(t, DocAt(t, i))

\* C3 as stated: the sources of append_texts' result are the arguments'
\* sources lists concatenated in order, and every element of the result
\* designates, through the result's doc and sources, the source object it
\* designated in the argument it came from.  (Read on the calls where every
\* element of every argument and of the result has a document id of its own,
\* so that the element's document id is defined on both sides.)
C3_ProvenanceIsPreserved ==
    (/\ Appended
     /\ \A k \in 1..Len(ArgTexts) : DocIsAligned(ArgTexts[k])
     /\ Len(Result.doc.v) = DataLen(Result))
    => /\ Result.sources =
              Concat([k \in 1..Len(ArgTexts) |-> ArgTexts[k].sources])
       /\ \A k \in 1..Len(ArgTexts) : \A i \in 1..DataLen(ArgTexts[k]) :
              LET j == DataLenUpTo(ArgTexts, k - 1) + i IN
                  /\ IsSourceIndex(Result, DocAt(Result, j))
                  /\ SourceAt(Result, DocAt(Result, j)) =
                         SourceAt(ArgTexts[k], DocAt(ArgTexts[k], i))

\* C4 as stated: the doc_splits of append_texts' result on n texts is
\* non-decreasing, starts at 0, ends at len(binary_text), and text k's
\* elements are binary_text[doc_splits[k]:doc_splits[k+1]] for k in 0..n-1.
C4_DocSplitsAreRowSplits ==
    Appended =>
        /\ Result.doc_splits # None
        /\ LET splits == Result.doc_splits[1]
               n == Len(ArgTexts)
               data == bufs[Result.binary_text].data
           IN  /\ Len(splits) = n + 1
               /\ splits[1] = 0
               /\ splits[Len(splits)] = Len(data)
               /\ \A k \in 1..(Len(splits) - 1) : splits[k] <= splits[k + 1]
               /\ \A k \in 1..n :
                      SubSeq(data, splits[k] + 1, splits[k + 1]) =
                          bufs[ArgTexts[k].binary_text].data

\* C5 as stated: a write to an element of one SourcedText's binary_text
\* changes the binary_text of no TextSource and of no other SourcedText.
C5_WritesStayInTheBatch ==
    [][(last'.op = "write" /\ last'.raised = "none") =>
          /\ \A s \in 1..Len(sources) :
                 bufs'[sources[s].binary_text].data =
                     bufs[sources[s].binary_text].data
          /\ \A c \in 1..Len(batches) :
                 c # last'.args[1] =>
                     bufs'[batches[c].binary_text].data =
                         bufs[batches[c].binary_text].data]_vars

====
